---- MODULE Spec2Model ----
(***************************************************************************)
(* A model of the tax computation core of tax-logic-core                   *)
(* (src/src/calculations/calculateTax.js and the policy helpers it         *)
(* imports): the bracket engine, the capital-gains stacker, the            *)
(* self-employment tax calculator, the NIIT calculator and the             *)
(* calculateTotalTax pipeline.                                             *)
(*                                                                         *)
(* JavaScript Numbers are modelled as exact signed decimals with 16        *)
(* fractional digits, held as little-endian sequences of base-10^4 limbs   *)
(* (the top limb carries the sign).  Every amount the pipeline derives     *)
(* from whole-dollar inputs has at most 14 decimals, so the arithmetic     *)
(* below is exact on every input the specifications enumerate; IEEE        *)
(* rounding of doubles is not modelled.                                    *)
(***************************************************************************)
EXTENDS Integers, Sequences, FiniteSets, TLC

VARIABLES call, form, locals, result, today

vars == <<call, form, locals, result, today>>

----------------------------------------------------------------------------
(* Number arithmetic *)

Base == 10^4
FracLimbs == 2 + 2
Limbs == FracLimbs + 3

RECURSIVE NormFrom(_, _, _)
NormFrom(s, i, carry) ==
    IF i = Limbs THEN <<s[i] + carry>>
    ELSE LET v == s[i] + carry
         IN  <<v % Base>> \o NormFrom(s, i + 1, v \div Base)

\* carry propagation: limbs 1..Limbs-1 in 0..Base-1, the top limb signed
Norm(s) == NormFrom(s, 1, 0)

\* the Number with the value of the integer n
N(n) == Norm([i \in 1..Limbs |-> IF i = FracLimbs + 1 THEN n ELSE 0])

Zero == N(0)

Add(a, b) == Norm([i \in 1..Limbs |-> a[i] + b[i]])
Sub(a, b) == Norm([i \in 1..Limbs |-> a[i] - b[i]])
Neg(a) == Sub(Zero, a)

IsNeg(a) == a[Limbs] < 0
Lt(a, b) == IsNeg(Sub(a, b))
Le(a, b) == ~Lt(b, a)
Gt(a, b) == Lt(b, a)
Ge(a, b) == ~Lt(a, b)

Max(a, b) == IF Lt(a, b) THEN b ELSE a
Min(a, b) == IF Lt(b, a) THEN b ELSE a
Abs(a) == IF IsNeg(a) THEN Neg(a) ELSE a

\* a * (r / 10^4): multiplication by a decimal constant with four decimals
MulRate(a, r) ==
    LET p == Norm([i \in 1..Limbs |-> a[i] * r])
    IN  Norm([i \in 1..Limbs |-> IF i = Limbs THEN p[Limbs] \div Base
                                 ELSE IF i = Limbs - 1 THEN p[Limbs] % Base
                                 ELSE p[i + 1]])

MulAbs(a, b) ==
    LET Term(m, i) == LET j == m + 1 + FracLimbs - i
                      IN  IF j >= 1 /\ j <= Limbs THEN a[i] * b[j] ELSE 0
        RECURSIVE SumTerms(_, _)
        SumTerms(m, i) == IF i = 0 THEN 0 ELSE Term(m, i) + SumTerms(m, i - 1)
    IN  Norm([m \in 1..Limbs |-> SumTerms(m, Limbs)])

\* a * b
Mul(a, b) ==
    LET p == MulAbs(Abs(a), Abs(b))
    IN  IF IsNeg(a) = IsNeg(b) THEN p ELSE Neg(p)

RECURSIVE DivFrom(_, _, _, _)
DivFrom(a, i, rem, k) ==
    IF i = 0 THEN <<>>
    ELSE LET v == rem * Base + a[i]
         IN  DivFrom(a, i - 1, v % k, k) \o <<v \div k>>

DivSmall(a, k) == DivFrom(a, Limbs, 0, k)

\* a / n for a positive integer n
DivInt(a, n) ==
    IF n % 1000 = 0 THEN DivSmall(DivSmall(a, 1000), n \div 1000)
    ELSE DivSmall(a, n)

----------------------------------------------------------------------------
(* Filing statuses and rate schedules *)

FilingStatuses == {"single", "married", "marriedSeparate", "head", "widow"}

\* [threshold, rate] pairs; the rate in ten-thousandths (0.10 is 1000)
TAX_BRACKETS_2025 ==
    [single |-> << <<0, 1000>>, <<11925, 1200>>, <<48475, 2200>>, <<103350, 2400>>,
                   <<197300, 3200>>, <<250525, 3500>>, <<626350, 3700>> >>,
     married |-> << <<0, 1000>>, <<23850, 1200>>, <<96950, 2200>>, <<206700, 2400>>,
                    <<394600, 3200>>, <<501050, 3500>>, <<751600, 3700>> >>,
     marriedSeparate |-> << <<0, 1000>>, <<11925, 1200>>, <<48475, 2200>>, <<103350, 2400>>,
                            <<197300, 3200>>, <<250525, 3500>>, <<375800, 3700>> >>,
     head |-> << <<0, 1000>>, <<17000, 1200>>, <<64850, 2200>>, <<103350, 2400>>,
                 <<197300, 3200>>, <<250500, 3500>>, <<626350, 3700>> >>,
     widow |-> << <<0, 1000>>, <<23850, 1200>>, <<96950, 2200>>, <<206700, 2400>>,
                  <<394600, 3200>>, <<501050, 3500>>, <<751600, 3700>> >>]

STANDARD_DEDUCTIONS_2025 ==
    [single |-> 15700, married |-> 31400, marriedSeparate |-> 15700,
     head |-> 23500, widow |-> 31400]

CAPITAL_GAINS_BRACKETS_2025 ==
    [single |-> << <<0, 0>>, <<48350, 1500>>, <<533400, 2000>> >>,
     married |-> << <<0, 0>>, <<96700, 1500>>, <<600050, 2000>> >>,
     marriedSeparate |-> << <<0, 0>>, <<48350, 1500>>, <<300025, 2000>> >>,
     head |-> << <<0, 0>>, <<64750, 1500>>, <<566700, 2000>> >>,
     widow |-> << <<0, 0>>, <<96700, 1500>>, <<600050, 2000>> >>]

----------------------------------------------------------------------------
(* Bracket engine *)

\* a bracket loop that taxes the whole income, not the part above the
\* bracket's threshold, at the rate of the bracket the income falls in
RECURSIVE BracketLoopWholeIncome(_, _, _, _)
BracketLoopWholeIncome(income, brackets, i, tax) ==
    IF i > Len(brackets) THEN tax
    ELSE LET limit == N(brackets[i][1])
             rate == brackets[i][2]
         IN  IF i < Len(brackets) /\ Gt(income, N(brackets[i + 1][1]))
             THEN BracketLoopWholeIncome(income, brackets, i + 1,
                      Add(tax, MulRate(Sub(N(brackets[i + 1][1]), limit), rate)))
             ELSE Add(tax, MulRate(income, rate))

\* the loop of calculateBracketTax from index i with the running tax
RECURSIVE BracketLoop(_, _, _, _)
BracketLoop(income, brackets, i, tax) ==
    IF i > Len(brackets) THEN tax
    ELSE LET limit == N(brackets[i][1])
             rate == brackets[i][2]
         IN  IF i < Len(brackets) /\ Gt(income, N(brackets[i + 1][1]))
             THEN BracketLoop(income, brackets, i + 1,
                              Add(tax, MulRate(Sub(N(brackets[i + 1][1]), limit), rate)))
             ELSE Add(tax, MulRate(Sub(income, limit), rate))

\* a bracket engine without the guard for income <= 0
calculateBracketTaxUnguarded(income, brackets) ==
    BracketLoop(income, brackets, 1, Zero)

calculateBracketTax(income, brackets) ==
    IF Le(income, Zero) THEN Zero
    ELSE Max(Zero, BracketLoop(income, brackets, 1, Zero))

----------------------------------------------------------------------------
(* Capital gains stacker *)

\* table[filingStatus] || table.single
Lookup(table, filingStatus) ==
    IF filingStatus \in DOMAIN table THEN table[filingStatus] ELSE table.single

\* the loop of calculateCapitalGainsTax from index i down, with the running
\* tax and the gains not yet allocated
RECURSIVE GainsLoop(_, _, _, _, _, _)
GainsLoop(taxableIncome, totalIncome, brackets, i, tax, remainingGains) ==
    IF i < 1 \/ ~Gt(remainingGains, Zero) THEN tax
    ELSE LET threshold == N(brackets[i][1])
             rate == brackets[i][2]
             gainsTaxedAtThisRate ==
                 Min(remainingGains, Sub(totalIncome, Max(taxableIncome, threshold)))
         IN  IF Gt(totalIncome, threshold)
             THEN GainsLoop(taxableIncome, totalIncome, brackets, i - 1,
                            Add(tax, MulRate(gainsTaxedAtThisRate, rate)),
                            Sub(remainingGains, gainsTaxedAtThisRate))
             ELSE GainsLoop(taxableIncome, totalIncome, brackets, i - 1,
                            tax, remainingGains)

\* a stacker that walks the schedule from the lowest bracket to the highest
RECURSIVE GainsLoopForward(_, _, _, _, _, _)
GainsLoopForward(taxableIncome, totalIncome, brackets, i, tax, remainingGains) ==
    IF i > Len(brackets) \/ ~Gt(remainingGains, Zero) THEN tax
    ELSE LET threshold == N(brackets[i][1])
             rate == brackets[i][2]
             gainsTaxedAtThisRate ==
                 Min(remainingGains, Sub(totalIncome, Max(taxableIncome, threshold)))
         IN  IF Gt(totalIncome, threshold)
             THEN GainsLoopForward(taxableIncome, totalIncome, brackets, i + 1,
                                   Add(tax, MulRate(gainsTaxedAtThisRate, rate)),
                                   Sub(remainingGains, gainsTaxedAtThisRate))
             ELSE GainsLoopForward(taxableIncome, totalIncome, brackets, i + 1,
                                   tax, remainingGains)

calculateCapitalGainsTaxForward(taxableIncome, capitalGains, filingStatus) ==
    IF Le(capitalGains, Zero) THEN Zero
    ELSE LET brackets == Lookup(CAPITAL_GAINS_BRACKETS_2025, filingStatus)
             totalIncome == Add(taxableIncome, capitalGains)
         IN  Max(Zero, GainsLoopForward(taxableIncome, totalIncome, brackets,
                                        1, Zero, capitalGains))

calculateCapitalGainsTax(taxableIncome, capitalGains, filingStatus) ==
    IF Le(capitalGains, Zero) THEN Zero
    ELSE LET brackets == Lookup(CAPITAL_GAINS_BRACKETS_2025, filingStatus)
             totalIncome == Add(taxableIncome, capitalGains)
         IN  Max(Zero, GainsLoop(taxableIncome, totalIncome, brackets,
                                 Len(brackets), Zero, capitalGains))

----------------------------------------------------------------------------
(* Self-employment tax *)

ssWageBase == 176100

AdditionalMedicareThresholds ==
    [single |-> 200000, head |-> 200000, married |-> 250000, widow |-> 250000,
     marriedSeparate |-> 125000]

\* a calculator without the guard for netSelfEmploymentIncome <= 0
calculateSelfEmploymentTaxUnguarded(netSelfEmploymentIncome, wages, filingStatus) ==
    LET taxableBase == MulRate(netSelfEmploymentIncome, 9235)
        remainingSSBase == Max(Zero, Sub(N(ssWageBase), Min(N(ssWageBase), wages)))
        ssTax == MulRate(Min(taxableBase, remainingSSBase), 1240)
        medicareTax == MulRate(taxableBase, 290)
        threshold == N(Lookup(AdditionalMedicareThresholds, filingStatus))
        addlBase == Max(Zero, Sub(taxableBase, Max(Zero, Sub(threshold, wages))))
        totalTax == Add(Add(ssTax, medicareTax), MulRate(addlBase, 90))
    IN  [tax |-> totalTax, deduction |-> MulRate(totalTax, 5000)]

\* a calculator that leaves the Additional Medicare Tax out of the deduction
calculateSelfEmploymentTaxHalfBase(netSelfEmploymentIncome, wages, filingStatus) ==
    IF Le(netSelfEmploymentIncome, Zero) THEN [tax |-> Zero, deduction |-> Zero]
    ELSE LET taxableBase == MulRate(netSelfEmploymentIncome, 9235)
             remainingSSBase ==
                 Max(Zero, Sub(N(ssWageBase), Min(N(ssWageBase), wages)))
             ssTax == MulRate(Min(taxableBase, remainingSSBase), 1240)
             medicareTax == MulRate(taxableBase, 290)
             threshold == N(Lookup(AdditionalMedicareThresholds, filingStatus))
             addlBase == Max(Zero, Sub(taxableBase, Max(Zero, Sub(threshold, wages))))
             additionalMedicare == MulRate(addlBase, 90)
         IN  [tax |-> Add(Add(ssTax, medicareTax), additionalMedicare),
              deduction |-> MulRate(Add(ssTax, medicareTax), 5000)]

\* a calculator that ignores the wages already subject to payroll taxes
calculateSelfEmploymentTaxNoWages(netSelfEmploymentIncome, wages, filingStatus) ==
    IF Le(netSelfEmploymentIncome, Zero) THEN [tax |-> Zero, deduction |-> Zero]
    ELSE LET taxableBase == MulRate(netSelfEmploymentIncome, 9235)
             ssTax == MulRate(Min(taxableBase, N(ssWageBase)), 1240)
             medicareTax == MulRate(taxableBase, 290)
             threshold == N(Lookup(AdditionalMedicareThresholds, filingStatus))
             addlBase == Max(Zero, Sub(taxableBase, threshold))
             totalTax == Add(Add(ssTax, medicareTax), MulRate(addlBase, 90))
         IN  [tax |-> totalTax, deduction |-> MulRate(totalTax, 5000)]

calculateSelfEmploymentTax(netSelfEmploymentIncome, wages, filingStatus) ==
    IF Le(netSelfEmploymentIncome, Zero) THEN [tax |-> Zero, deduction |-> Zero]
    ELSE LET taxableBase == MulRate(netSelfEmploymentIncome, 9235)
             remainingSSBase ==
                 Max(Zero, Sub(N(ssWageBase), Min(N(ssWageBase), wages)))
             ssTaxableSE == Min(taxableBase, remainingSSBase)
             ssTax == MulRate(ssTaxableSE, 1240)
             medicareTax == MulRate(taxableBase, 290)
             threshold == N(Lookup(AdditionalMedicareThresholds, filingStatus))
             addlBase == Max(Zero, Sub(taxableBase, Max(Zero, Sub(threshold, wages))))
             additionalMedicare == MulRate(addlBase, 90)
             totalTax == Add(Add(ssTax, medicareTax), additionalMedicare)
             deduction == MulRate(totalTax, 5000)
         IN  [tax |-> totalTax, deduction |-> deduction]

----------------------------------------------------------------------------
(* Net investment income tax *)

NIITThresholds ==
    [single |-> 200000, married |-> 250000, marriedSeparate |-> 125000,
     head |-> 200000, widow |-> 250000]

calculateNIIT(agi, netInvestmentIncome, filingStatus) ==
    LET threshold == N(Lookup(NIITThresholds, filingStatus))
        excessAGI == Max(Zero, Sub(agi, threshold))
        taxableNII == Min(excessAGI, netInvestmentIncome)
    IN  MulRate(taxableNII, 380)

----------------------------------------------------------------------------
(* JavaScript values of form fields *)

Undefined == [t |-> "undefined", v |-> 0]
Num(n) == [t |-> "number", v |-> n]

\* the value parseFloat gives for anything that is not a number
NaN == <<>>

parseFloat(x) == IF x.t = "number" THEN N(x.v) ELSE NaN

\* a || b on Numbers: NaN and 0 are falsy
Or(a, b) == IF a = NaN \/ a = Zero THEN b ELSE a

\* parseFloat(x) || 0
Or0(x) == Or(parseFloat(x), Zero)

\* an array held by a form field
Array(s) == [t |-> "array", v |-> s]

\* no array given
NoArray == [t |-> "undefined", v |-> <<>>]

\* a number other than 0 given where an array is expected
NotAnArray == [t |-> "number", v |-> <<>>]

NoDate == [y |-> 0, m |-> 0, d |-> 0]

NoScheduleC == [present |-> FALSE, netProfit |-> Undefined,
                grossReceipts |-> Undefined, expenses |-> Undefined]
NoScheduleE == [present |-> FALSE, netIncome |-> Undefined,
                rentalIncome |-> Undefined, rentalExpenses |-> Undefined]
NoScheduleD == [present |-> FALSE, shortTermGain |-> Undefined,
                shortTermLoss |-> Undefined, longTermGain |-> Undefined,
                longTermLoss |-> Undefined]
NoScheduleK1 == [present |-> FALSE, guaranteedPayments |-> Undefined,
                 ordinaryIncome |-> Undefined]

\* the form {}: every field absent ("" is an absent string, "undefined" an
\* absent flag)
EmptyForm ==
    [filingStatus |-> "", deductionType |-> "", useObbba2025 |-> "undefined",
     birthDate |-> NoDate, dependents |-> NoArray,
     hasScheduleC |-> FALSE, scheduleC |-> NoScheduleC,
     hasScheduleE |-> FALSE, scheduleE |-> NoScheduleE,
     hasScheduleD |-> FALSE, scheduleD |-> NoScheduleD,
     scheduleK1 |-> NoScheduleK1,
     totalWages |-> Undefined, taxableInterest |-> Undefined,
     ordinaryDividends |-> Undefined, qualifiedDividends |-> Undefined,
     taxableIra |-> Undefined, taxablePensions |-> Undefined,
     taxableSocialSecurity |-> Undefined, capitalGainLoss |-> Undefined,
     otherIncome |-> Undefined, partnershipIncome |-> Undefined,
     sCorpIncome |-> Undefined,
     educatorExpenses |-> Undefined, hsaDeduction |-> Undefined,
     selfEmploymentTaxDeduction |-> Undefined, selfEmployedSEPSimple |-> Undefined,
     selfEmployedHealthInsurance |-> Undefined, penaltyEarlyWithdrawal |-> Undefined,
     alimonyPaid |-> Undefined, iraDeduction |-> Undefined,
     studentLoanInterest |-> Undefined,
     tipIncome |-> Undefined, overtimeIncome |-> Undefined,
     autoLoanInterest |-> Undefined,
     stateLocalTaxes |-> Undefined, realEstateTaxes |-> Undefined,
     medicalExpenses |-> Undefined, mortgageInterest |-> Undefined,
     charityCash |-> Undefined, charityNonCash |-> Undefined,
     casualtyLosses |-> Undefined, otherItemized |-> Undefined,
     childTaxCredit |-> Undefined, creditOtherDependents |-> Undefined,
     educationCredits |-> Undefined, retirementSaversCredit |-> Undefined,
     childCareCredit |-> Undefined, earnedIncomeCredit |-> Undefined,
     otherCredits |-> Undefined,
     totalWithholding |-> Undefined, estimatedTaxPayments |-> Undefined,
     amountAppliedFromPriorYear |-> Undefined]

----------------------------------------------------------------------------
(* Policy resolver *)

\* flags that leave the OBBBA provisions on whatever the form says
getPolicyFlagsAlwaysOn(f) == [useObbba2025 |-> TRUE]

getPolicyFlags(f) ==
    [useObbba2025 |-> IF f.useObbba2025 # "undefined" THEN f.useObbba2025 = "true"
                      ELSE TRUE]

\* a SALT cap that ignores the flag
getSaltCapPreObbba(filingStatus, f) ==
    IF filingStatus = "marriedSeparate" THEN N(5000) ELSE N(10000)

getSaltCap(filingStatus, f) ==
    IF getPolicyFlags(f).useObbba2025
    THEN (IF filingStatus = "marriedSeparate" THEN N(20000) ELSE N(40000))
    ELSE (IF filingStatus = "marriedSeparate" THEN N(5000) ELSE N(10000))

----------------------------------------------------------------------------
(* Total tax pipeline *)

PhaseOutLimits(filingStatus) ==
    IF filingStatus = "married" THEN [start |-> 300000, end |-> 550000]
    ELSE [start |-> 150000, end |-> 400000]

getPhaseOutPct(income, filingStatus) ==
    LET limits == PhaseOutLimits(filingStatus)
    IN  IF Le(income, N(limits.start)) THEN N(1)
        ELSE IF Ge(income, N(limits.end)) THEN Zero
        ELSE Sub(N(1), DivInt(Sub(income, N(limits.start)), limits.end - limits.start))

calculateAge(birthDate, now) ==
    IF birthDate = NoDate THEN 40
    ELSE LET age == now.y - birthDate.y
             monthDiff == now.m - birthDate.m
         IN  IF monthDiff < 0 \/ (monthDiff = 0 /\ now.d < birthDate.d)
             THEN age - 1 ELSE age

RECURSIVE SumAll(_)
SumAll(seq) == IF seq = <<>> THEN Zero ELSE Add(Head(seq), SumAll(Tail(seq)))

\* a capital block that limits every filing status's loss to 3000
CapitalLocalsOneLimit(f, filingStatus) ==
    LET useD == f.hasScheduleD /\ f.scheduleD.present
        useNet == ~useD /\ f.capitalGainLoss.t # "undefined"
        net == Or0(f.capitalGainLoss)
        shortTermGain == IF useD THEN Or0(f.scheduleD.shortTermGain) ELSE Zero
        shortTermLoss == IF useD THEN Abs(Or0(f.scheduleD.shortTermLoss)) ELSE Zero
        longTermGain == IF useD THEN Or0(f.scheduleD.longTermGain)
                        ELSE IF useNet /\ Ge(net, Zero) THEN net ELSE Zero
        longTermLoss == IF useD THEN Abs(Or0(f.scheduleD.longTermLoss))
                        ELSE IF useNet /\ ~Ge(net, Zero) THEN Abs(net) ELSE Zero
        netShortTerm == Sub(shortTermGain, shortTermLoss)
        netLongTerm == Sub(longTermGain, longTermLoss)
        netCapital == Add(netShortTerm, netLongTerm)
        capLossLimit == N(3000)
        cappedCapitalForAGI ==
            IF Ge(netCapital, Zero) THEN netCapital
            ELSE Neg(Min(capLossLimit, Abs(netCapital)))
    IN  [netShortTerm |-> netShortTerm, netLongTerm |-> netLongTerm,
         netCapital |-> netCapital, capLossLimit |-> capLossLimit,
         cappedCapitalForAGI |-> cappedCapitalForAGI]

\* the part of calculateTotalTax that turns Schedule D or capitalGainLoss into
\* the net capital result and its capped share of total income
CapitalLocals(f, filingStatus) ==
    LET useD == f.hasScheduleD /\ f.scheduleD.present
        useNet == ~useD /\ f.capitalGainLoss.t # "undefined"
        net == Or0(f.capitalGainLoss)
        shortTermGain == IF useD THEN Or0(f.scheduleD.shortTermGain) ELSE Zero
        shortTermLoss == IF useD THEN Abs(Or0(f.scheduleD.shortTermLoss)) ELSE Zero
        longTermGain == IF useD THEN Or0(f.scheduleD.longTermGain)
                        ELSE IF useNet /\ Ge(net, Zero) THEN net ELSE Zero
        longTermLoss == IF useD THEN Abs(Or0(f.scheduleD.longTermLoss))
                        ELSE IF useNet /\ ~Ge(net, Zero) THEN Abs(net) ELSE Zero
        netShortTerm == Sub(shortTermGain, shortTermLoss)
        netLongTerm == Sub(longTermGain, longTermLoss)
        netCapital == Add(netShortTerm, netLongTerm)
        capLossLimit == IF filingStatus = "marriedSeparate" THEN N(1500) ELSE N(3000)
        cappedCapitalForAGI ==
            IF Ge(netCapital, Zero) THEN netCapital
            ELSE Neg(Min(capLossLimit, Abs(netCapital)))
    IN  [netShortTerm |-> netShortTerm, netLongTerm |-> netLongTerm,
         netCapital |-> netCapital, capLossLimit |-> capLossLimit,
         cappedCapitalForAGI |-> cappedCapitalForAGI]

\* a QBI block whose ceiling does not subtract the net capital gain
QBILocalsNoGainOffset(f, scheduleC, agi, deduction, netLongTerm, qualifiedDividends) ==
    LET guaranteedPayments ==
            IF f.scheduleK1.present THEN Or0(f.scheduleK1.guaranteedPayments) ELSE Zero
        k1Ordinary ==
            IF f.scheduleK1.present THEN parseFloat(f.scheduleK1.ordinaryIncome) ELSE NaN
        partnershipIncome == Or(parseFloat(f.partnershipIncome), Or(k1Ordinary, Zero))
        sCorpIncome == Or0(f.sCorpIncome)
        qbiEligible ==
            Add(Max(Zero, scheduleC),
                Max(Zero, Sub(Add(partnershipIncome, sCorpIncome), guaranteedPayments)))
        tentativeQBI == MulRate(qbiEligible, 2000)
        taxableBeforeQBI == Max(Zero, Sub(agi, deduction))
        limit == MulRate(taxableBeforeQBI, 2000)
    IN  [qbiEligible |-> qbiEligible,
         qbiDeduction |-> IF Gt(qbiEligible, Zero)
                          THEN Min(tentativeQBI, Max(Zero, limit)) ELSE Zero]

\* the QBI block of calculateTotalTax
QBILocals(f, scheduleC, agi, deduction, netLongTerm, qualifiedDividends) ==
    LET guaranteedPayments ==
            IF f.scheduleK1.present THEN Or0(f.scheduleK1.guaranteedPayments) ELSE Zero
        k1Ordinary ==
            IF f.scheduleK1.present THEN parseFloat(f.scheduleK1.ordinaryIncome) ELSE NaN
        partnershipIncome == Or(parseFloat(f.partnershipIncome), Or(k1Ordinary, Zero))
        sCorpIncome == Or0(f.sCorpIncome)
        qbiEligible ==
            Add(Max(Zero, scheduleC),
                Max(Zero, Sub(Add(partnershipIncome, sCorpIncome), guaranteedPayments)))
        tentativeQBI == MulRate(qbiEligible, 2000)
        taxableBeforeQBI == Max(Zero, Sub(agi, deduction))
        netCapGainForLimit == Add(Max(Zero, netLongTerm), Max(Zero, qualifiedDividends))
        limit == MulRate(Sub(taxableBeforeQBI, netCapGainForLimit), 2000)
    IN  [qbiEligible |-> qbiEligible,
         qbiDeduction |-> IF Gt(qbiEligible, Zero)
                          THEN Min(tentativeQBI, Max(Zero, limit)) ELSE Zero]

\* The locals of calculateTotalTax(form) are computed section by section, as the
\* function's body is laid out; each section receives the locals computed so
\* far (the record l) and adds its own.

\* filing status and the income fields read from the form
IncomeLocals(f) ==
    [filingStatus |-> IF f.filingStatus = "" THEN "single" ELSE f.filingStatus,
     totalWages |-> Or0(f.totalWages),
     taxableInterest |-> Or0(f.taxableInterest),
     ordinaryDividends |-> Or0(f.ordinaryDividends),
     qualifiedDividends |-> Or0(f.qualifiedDividends),
     taxableIra |-> Or0(f.taxableIra),
     taxablePensions |-> Or0(f.taxablePensions),
     taxableSocialSecurity |-> Or0(f.taxableSocialSecurity),
     otherIncome |-> Or0(f.otherIncome),
     scheduleC |->
        IF f.hasScheduleC /\ f.scheduleC.present
        THEN (IF f.scheduleC.netProfit.t # "undefined"
              THEN Or0(f.scheduleC.netProfit)
              ELSE Sub(Or0(f.scheduleC.grossReceipts), Or0(f.scheduleC.expenses)))
        ELSE Zero,
     scheduleE |->
        IF f.hasScheduleE /\ f.scheduleE.present
        THEN (IF f.scheduleE.netIncome.t # "undefined"
              THEN Or0(f.scheduleE.netIncome)
              ELSE Sub(Or0(f.scheduleE.rentalIncome), Or0(f.scheduleE.rentalExpenses)))
        ELSE Zero]

\* the Schedule D block
WithCapital(f, l) == l @@ CapitalLocals(f, l.filingStatus)

\* total income
WithTotalIncome(f, l) ==
    l @@ [totalIncome |->
            SumAll(<<l.totalWages, l.taxableInterest, l.ordinaryDividends,
                     l.taxableIra, l.taxablePensions, l.taxableSocialSecurity,
                     l.otherIncome, l.scheduleC, l.scheduleE,
                     l.cappedCapitalForAGI>>)]

\* the income the OBBBA phase-out is measured on
WithPhaseOut(f, l) ==
    l @@ [magiForPhaseOut |->
            Sub(l.totalIncome,
                SumAll(<<Or0(f.educatorExpenses), Or0(f.hsaDeduction),
                         Or0(f.selfEmploymentTaxDeduction),
                         Or0(f.selfEmployedSEPSimple),
                         Or0(f.selfEmployedHealthInsurance),
                         Or0(f.penaltyEarlyWithdrawal),
                         Or0(f.alimonyPaid), Or0(f.iraDeduction),
                         Or0(f.studentLoanInterest)>>))]

\* the OBBBA deductions and the self-employment tax with its deduction
WithObbbaAndSE(f, now, l, phaseOutPct, useObbba2025, se) ==
    l @@ [phaseOutPct |-> phaseOutPct,
          tipsDeduction |->
            IF useObbba2025 THEN Mul(Min(Or0(f.tipIncome), N(25000)), phaseOutPct)
            ELSE Zero,
          overtimeDeduction |->
            IF useObbba2025 THEN Mul(Min(Or0(f.overtimeIncome), N(12500)), phaseOutPct)
            ELSE Zero,
          autoLoanDeduction |->
            IF useObbba2025 THEN Min(Or0(f.autoLoanInterest), N(10000)) ELSE Zero,
          seniorBonus |->
            IF useObbba2025 /\ calculateAge(f.birthDate, now) >= 65 THEN N(6000)
            ELSE Zero,
          seTaxDeductionComputed |-> se.deduction,
          seTax |-> se.tax]

\* adjustments to income
WithAdjustments(f, l) ==
    l @@ [totalAdjustments |->
            SumAll(<<Or0(f.educatorExpenses), Or0(f.hsaDeduction),
                     Max(Or0(f.selfEmploymentTaxDeduction), l.seTaxDeductionComputed),
                     Or0(f.selfEmployedSEPSimple), Or0(f.selfEmployedHealthInsurance),
                     Or0(f.penaltyEarlyWithdrawal), Or0(f.alimonyPaid),
                     Or0(f.iraDeduction), Or0(f.studentLoanInterest),
                     l.tipsDeduction, l.overtimeDeduction, l.autoLoanDeduction,
                     l.seniorBonus>>)]

\* adjusted gross income
WithAGI(l) == l @@ [agi |-> Sub(l.totalIncome, l.totalAdjustments)]

\* the standard deduction and the parts of the itemized one
WithDeductionParts(f, l) ==
    l @@ [standardDeduction |-> N(Lookup(STANDARD_DEDUCTIONS_2025, l.filingStatus)),
          saltCap |-> getSaltCap(l.filingStatus, f),
          actualSalt |->
            Min(Add(Or0(f.stateLocalTaxes), Or0(f.realEstateTaxes)),
                getSaltCap(l.filingStatus, f)),
          medicalDeductible |->
            Max(Zero, Sub(Or0(f.medicalExpenses), MulRate(l.agi, 750)))]

\* the itemized total
WithItemized(f, l) ==
    l @@ [itemizedTotal |->
            SumAll(<<l.medicalDeductible, l.actualSalt, Or0(f.mortgageInterest),
                     Or0(f.charityCash), Or0(f.charityNonCash), Or0(f.casualtyLosses),
                     Or0(f.otherItemized)>>)]

\* a deduction that is the larger of the two
WithDeductionLarger(f, l) ==
    l @@ [deduction |-> Max(l.itemizedTotal, l.standardDeduction)]

\* the deduction the return takes
WithDeduction(f, l) ==
    l @@ [deduction |-> IF f.deductionType = "itemized" THEN l.itemizedTotal
                        ELSE l.standardDeduction]

\* the QBI block
WithQBI(f, l) ==
    l @@ QBILocals(f, l.scheduleC, l.agi, l.deduction, l.netLongTerm,
                   l.qualifiedDividends)

\* taxable income and its preferential part
WithTaxableIncome(l) ==
    l @@ [taxableIncome |-> Max(Zero, Sub(Sub(l.agi, l.deduction), l.qbiDeduction)),
          totalQualifiedIncome |->
            Add(l.qualifiedDividends, Max(Zero, l.netLongTerm))]

\* the ordinary part of taxable income
WithOrdinaryIncome(l) ==
    l @@ [ordinaryTaxableIncome |->
            Max(Zero, Sub(l.taxableIncome, l.totalQualifiedIncome))]

\* regular tax, capital gains tax, net investment income and its tax
WithTaxes(l, investmentIncome) ==
    l @@ [regularTax |->
            calculateBracketTax(l.ordinaryTaxableIncome,
                                Lookup(TAX_BRACKETS_2025, l.filingStatus)),
          capitalGainsTax |->
            calculateCapitalGainsTax(l.ordinaryTaxableIncome, l.totalQualifiedIncome,
                                     l.filingStatus),
          investmentIncome |-> investmentIncome,
          niit |-> calculateNIIT(l.agi, investmentIncome, l.filingStatus)]

\* total tax before credits
WithTotalTax(l) ==
    l @@ [totalTaxBeforeCredits |->
            SumAll(<<l.regularTax, l.capitalGainsTax, l.seTax, l.niit>>)]

\* the credits
WithCredits(f, l, qualifyingChildren, otherDependents) ==
    l @@ [nonRefundableCredits |->
            SumAll(<<Or(parseFloat(f.childTaxCredit), N(qualifyingChildren * 2000)),
                     Or(parseFloat(f.creditOtherDependents), N(otherDependents * 500)),
                     Or0(f.educationCredits), Or0(f.retirementSaversCredit),
                     Or0(f.childCareCredit)>>),
          refundableCredits |-> Add(Or0(f.earnedIncomeCredit), Or0(f.otherCredits))]

\* credit totals whose tax after the non-refundable credits has no floor
WithCreditTotalsNoFloor(f, l) ==
    l @@ [totalCredits |-> Add(l.nonRefundableCredits, l.refundableCredits),
          taxAfterNonRefundable |->
            Sub(l.totalTaxBeforeCredits, l.nonRefundableCredits),
          totalPayments |->
            SumAll(<<Or0(f.totalWithholding), Or0(f.estimatedTaxPayments),
                     Or0(f.amountAppliedFromPriorYear)>>)]

\* the tax after the non-refundable credits, and the payments
WithCreditTotals(f, l) ==
    l @@ [totalCredits |-> Add(l.nonRefundableCredits, l.refundableCredits),
          taxAfterNonRefundable |->
            Max(Zero, Sub(l.totalTaxBeforeCredits, l.nonRefundableCredits)),
          totalPayments |->
            SumAll(<<Or0(f.totalWithholding), Or0(f.estimatedTaxPayments),
                     Or0(f.amountAppliedFromPriorYear)>>)]

\* the final tax
WithFinalTax(l) ==
    l @@ [finalTax |-> Sub(l.taxAfterNonRefundable, l.refundableCredits)]

\* the refund or the amount owed
WithRefund(l) == l @@ [refundOrOwed |-> Sub(l.totalPayments, l.finalTax)]

\* the locals up to adjusted gross income
LocalsToAGI(f, now, l) ==
    WithAGI(WithAdjustments(f,
        WithObbbaAndSE(f, now, l,
                       getPhaseOutPct(l.magiForPhaseOut, l.filingStatus),
                       getPolicyFlags(f).useObbba2025,
                       calculateSelfEmploymentTax(l.scheduleC, Or0(f.totalWages),
                                                  l.filingStatus))))

\* the locals up to the ordinary part of taxable income
LocalsToTaxable(f, l) ==
    WithOrdinaryIncome(WithTaxableIncome(WithQBI(f,
        WithDeduction(f, WithItemized(f, WithDeductionParts(f, l))))))

\* (form.dependents || []) where the value is an array
Dependents(f) == IF f.dependents.t = "array" THEN f.dependents.v ELSE <<>>

\* the locals from the taxes to the refund
LocalsToRefund(f, l) ==
    WithRefund(WithFinalTax(WithCreditTotals(f,
        WithCredits(f,
            WithTotalTax(
                WithTaxes(l, SumAll(<<l.taxableInterest, l.ordinaryDividends,
                                      Max(Zero, l.netCapital), l.scheduleE>>))),
            Cardinality({i \in 1..Len(Dependents(f)) :
                            Dependents(f)[i].qualifyingChild
                                /\ Dependents(f)[i].childTaxCredit}),
            Cardinality({i \in 1..Len(Dependents(f)) :
                            ~Dependents(f)[i].qualifyingChild})))))

\* every local of calculateTotalTax(form), evaluated at the moment now
Pipeline(f, now) ==
    LocalsToRefund(f,
        LocalsToTaxable(f,
            LocalsToAGI(f, now,
                WithPhaseOut(f, WithTotalIncome(f, WithCapital(f, IncomeLocals(f)))))))

\* a Tax Result whose isRefund needs a strictly positive refund
TaxResultStrictRefund(l) ==
    [returned |-> TRUE,
     totalIncome |-> l.totalIncome, totalAdjustments |-> l.totalAdjustments,
     agi |-> l.agi, deduction |-> l.deduction, taxableIncome |-> l.taxableIncome,
     regularTax |-> l.regularTax, capitalGainsTax |-> l.capitalGainsTax,
     seTax |-> l.seTax, totalTaxBeforeCredits |-> l.totalTaxBeforeCredits,
     totalCredits |-> l.totalCredits, finalTax |-> l.finalTax,
     totalPayments |-> l.totalPayments, refundOrOwed |-> l.refundOrOwed,
     isRefund |-> Gt(l.refundOrOwed, Zero)]

\* the Tax Result calculateTotalTax returns, from its locals
TaxResult(l) ==
    [returned |-> TRUE,
     totalIncome |-> l.totalIncome, totalAdjustments |-> l.totalAdjustments,
     agi |-> l.agi, deduction |-> l.deduction, taxableIncome |-> l.taxableIncome,
     regularTax |-> l.regularTax, capitalGainsTax |-> l.capitalGainsTax,
     seTax |-> l.seTax, totalTaxBeforeCredits |-> l.totalTaxBeforeCredits,
     totalCredits |-> l.totalCredits, finalTax |-> l.finalTax,
     totalPayments |-> l.totalPayments, refundOrOwed |-> l.refundOrOwed,
     isRefund |-> Ge(l.refundOrOwed, Zero)]

\* a filing status that names a property every object literal inherits: the
\* lookups table[filingStatus] || table.single then yield the inherited
\* function (Object, of length 1) instead of falling back to table.single
InheritedKeys == {"constructor"}

\* calculateTotalTax(form) throws a TypeError:
\*  - form.dependents is a number other than 0, which has no filter method;
\*  - the filing status is an inherited key and the standard deduction is taken:
\*    the deduction is the inherited function, taxable income is NaN, and
\*    calculateBracketTax destructures element 0 of the function, undefined
Throws(f) ==
    \/ f.dependents = NotAnArray
    \/ f.filingStatus \in InheritedKeys /\ f.deductionType # "itemized"

\* what the caller observes when the call throws
Thrown == [returned |-> FALSE, threw |-> "TypeError"]

calculateTotalTax(f, now) ==
    IF Throws(f) THEN Thrown ELSE TaxResult(Pipeline(f, now))

\* { ...form, ...overrides }
Spread(f, overrides) ==
    [k \in DOMAIN f \cup DOMAIN overrides |->
        IF k \in DOMAIN overrides THEN overrides[k] ELSE f[k]]

\* a variant that lets the form's own keys win
calculateTaxWithOverridesFormFirst(f, overrides, now) ==
    calculateTotalTax(Spread(overrides, f), now)

calculateTaxWithOverrides(f, overrides, now) ==
    calculateTotalTax(Spread(f, overrides), now)

----------------------------------------------------------------------------
(* Direct calls of the exported calculators *)

Near == 1
MaxIncome == 1000000

Thresholds(table) ==
    UNION {{table[s][i][1] : i \in 1..Len(table[s])} : s \in DOMAIN table}

Around(S) == {t + d : t \in S, d \in (0 - Near)..Near}

\* a filing status outside the tables takes every lookup's fallback
StatusArgs == FilingStatuses \cup {"other"}

BracketIncomes ==
    Around(Thresholds(TAX_BRACKETS_2025)) \cup {0 - MaxIncome, 60000, MaxIncome}

OrdinaryIncomes ==
    Around(Thresholds(CAPITAL_GAINS_BRACKETS_2025)) \cup {0 - 10000, 40000, MaxIncome}

GainsAmounts == {0 - 20000, 0, 1, 20000, 100000, 600000, MaxIncome}

SEIncomes == {0 - 20000, 0, 1, 50000, 100000, 200000, 300000, MaxIncome}

WageAmounts == {0 - 1000, 0, 50000, 176100, 176100 + Near, 200000, 300000}

AGIAmounts ==
    Around({NIITThresholds[s] : s \in DOMAIN NIITThresholds})
        \cup {0 - 50000, 0, 400000, MaxIncome}

NIIAmounts == {0 - 20000, 0, 1, 50000, 300000}

NoCall == [fn |-> "none", args |-> <<>>, status |-> "none", ret |-> Zero]

NoResult == [returned |-> FALSE]
NoLocals == [computed |-> FALSE]

\* the day the process runs on
StartDate == [y |-> 2026, m |-> 4, d |-> 15]

Init ==
    /\ call = NoCall
    /\ form = EmptyForm
    /\ locals = NoLocals
    /\ result = NoResult
    /\ today = StartDate

CallBracketTax(income, s) ==
    /\ call = NoCall
    /\ call' = [fn |-> "calculateBracketTax", args |-> <<income>>, status |-> s,
                ret |-> calculateBracketTax(N(income), TAX_BRACKETS_2025[s])]
    /\ UNCHANGED <<form, locals, result, today>>

CallCapitalGainsTax(taxableIncome, capitalGains, s) ==
    /\ call = NoCall
    /\ call' = [fn |-> "calculateCapitalGainsTax",
                args |-> <<taxableIncome, capitalGains>>, status |-> s,
                ret |-> calculateCapitalGainsTax(N(taxableIncome), N(capitalGains), s)]
    /\ UNCHANGED <<form, locals, result, today>>

CallSelfEmploymentTax(netSelfEmploymentIncome, wages, s) ==
    /\ call = NoCall
    /\ call' = [fn |-> "calculateSelfEmploymentTax",
                args |-> <<netSelfEmploymentIncome, wages>>, status |-> s,
                ret |-> calculateSelfEmploymentTax(N(netSelfEmploymentIncome),
                                                   N(wages), s)]
    /\ UNCHANGED <<form, locals, result, today>>

CallNIIT(agi, netInvestmentIncome, s) ==
    /\ call = NoCall
    /\ call' = [fn |-> "calculateNIIT", args |-> <<agi, netInvestmentIncome>>,
                status |-> s, ret |-> calculateNIIT(N(agi), N(netInvestmentIncome), s)]
    /\ UNCHANGED <<form, locals, result, today>>

\* the caller drops the returned value
Return ==
    /\ call # NoCall
    /\ call' = NoCall
    /\ UNCHANGED <<form, locals, result, today>>

NextBracket ==
    \/ Return
    \/ \E income \in BracketIncomes, s \in FilingStatuses : CallBracketTax(income, s)

NextCapGains ==
    \/ Return
    \/ \E ti \in OrdinaryIncomes, cg \in GainsAmounts, s \in StatusArgs :
        CallCapitalGainsTax(ti, cg, s)

NextSE ==
    \/ Return
    \/ \E se \in SEIncomes, w \in WageAmounts, s \in StatusArgs :
        CallSelfEmploymentTax(se, w, s)

NextNIIT ==
    \/ Return
    \/ \E agi \in AGIAmounts, nii \in NIIAmounts, s \in StatusArgs :
          CallNIIT(agi, nii, s)

SpecBracket == Init /\ [][NextBracket]_vars
SpecCapGains == Init /\ [][NextCapGains]_vars
SpecSE == Init /\ [][NextSE]_vars
SpecNIIT == Init /\ [][NextNIIT]_vars

----------------------------------------------------------------------------
(* A caller fills in a form and has it computed *)

MaxEntries == 2

\* what a caller may enter on a form: one field, or a schedule with its flag
Entries ==
    << [totalWages |-> Num(50000)],
       [totalWages |-> Num(100000)],
       [totalWages |-> Num(320000)],
       [taxableInterest |-> Num(10000)],
       [qualifiedDividends |-> Num(20000)],
       [capitalGainLoss |-> Num(0 - 10000)],
       [capitalGainLoss |-> Num(0 - 2000)],
       [capitalGainLoss |-> Num(20000)],
       [hasScheduleD |-> TRUE,
        scheduleD |-> [present |-> TRUE, shortTermGain |-> Num(5000),
                       shortTermLoss |-> Num(0 - 1000), longTermGain |-> Num(0),
                       longTermLoss |-> Num(20000)]],
       [hasScheduleD |-> TRUE,
        scheduleD |-> [present |-> TRUE, shortTermGain |-> Undefined,
                       shortTermLoss |-> Num(10000), longTermGain |-> Num(30000),
                       longTermLoss |-> Undefined]],
       [hasScheduleC |-> TRUE,
        scheduleC |-> [present |-> TRUE, netProfit |-> Num(0 - 20000),
                       grossReceipts |-> Undefined, expenses |-> Undefined]],
       [hasScheduleC |-> TRUE,
        scheduleC |-> [present |-> TRUE, netProfit |-> Num(100000),
                       grossReceipts |-> Undefined, expenses |-> Undefined]],
       [hasScheduleC |-> TRUE,
        scheduleC |-> [present |-> TRUE, netProfit |-> Undefined,
                       grossReceipts |-> Num(300000), expenses |-> Num(60000)]],
       [hasScheduleE |-> TRUE,
        scheduleE |-> [present |-> TRUE, netIncome |-> Num(0 - 20000),
                       rentalIncome |-> Undefined, rentalExpenses |-> Undefined]],
       [hasScheduleE |-> TRUE,
        scheduleE |-> [present |-> TRUE, netIncome |-> Undefined,
                       rentalIncome |-> Num(30000), rentalExpenses |-> Num(12000)]],
       [partnershipIncome |-> Num(100000)],
       [scheduleK1 |-> [present |-> TRUE, guaranteedPayments |-> Num(20000),
                        ordinaryIncome |-> Num(100000)]],
       [medicalExpenses |-> Num(10000)],
       [stateLocalTaxes |-> Num(50000)],
       [selfEmploymentTaxDeduction |-> Num(9000)],
       [tipIncome |-> Num(20000)],
       [useObbba2025 |-> "false"],
       [birthDate |-> [y |-> 1950, m |-> 1, d |-> 1]],
       [dependents |-> Array(<< [qualifyingChild |-> TRUE, childTaxCredit |-> TRUE,
                                 qualifyingRelative |-> FALSE] >>)],
       [educationCredits |-> Num(2500)],
       [earnedIncomeCredit |-> Num(3000)],
       [totalWithholding |-> Num(8000)] >>

EnteredStatuses == FilingStatuses
DeductionTypes == {"standard", "itemized"}

\* e is on the form f as entered
Entered(f, e) == \A k \in DOMAIN e : f[k] = e[k]

EntryCount(f) == Cardinality({i \in 1..Len(Entries) : Entered(f, Entries[i])})

NotComputed == result = NoResult

SetFilingStatus(s) ==
    /\ NotComputed
    /\ form.filingStatus = ""
    /\ form' = [form EXCEPT !.filingStatus = s]
    /\ UNCHANGED <<call, locals, result, today>>

SetDeductionType(d) ==
    /\ NotComputed
    /\ form.deductionType = ""
    /\ form' = [form EXCEPT !.deductionType = d]
    /\ UNCHANGED <<call, locals, result, today>>

Enter(i) ==
    /\ NotComputed
    /\ EntryCount(form) < MaxEntries
    /\ \A k \in DOMAIN Entries[i] : form[k] = EmptyForm[k]
    /\ form' = [k \in DOMAIN form |->
                   IF k \in DOMAIN Entries[i] THEN Entries[i][k] ELSE form[k]]
    /\ UNCHANGED <<call, locals, result, today>>

\* calculateTotalTax(form)
Compute ==
    /\ NotComputed
    /\ locals' = IF Throws(form) THEN NoLocals ELSE Pipeline(form, today)
    /\ result' = IF Throws(form) THEN Thrown ELSE TaxResult(locals')
    /\ UNCHANGED <<call, form, today>>

Next ==
    \/ \E s \in EnteredStatuses : SetFilingStatus(s)
    \/ \E d \in DeductionTypes : SetDeductionType(d)
    \/ \E i \in 1..Len(Entries) : Enter(i)
    \/ Compute

Spec == Init /\ [][Next]_vars

----------------------------------------------------------------------------
(* A caller computes a form, changes one thing and computes again *)

MaxCalls == 2

\* a later day of the same filing season
LaterDate == [y |-> 2026, m |-> 6, d |-> 2]

\* the forms a session starts from
SessionForms ==
    << Spread(EmptyForm, [deductionType |-> "itemized", useObbba2025 |-> "true",
                          totalWages |-> Num(100000),
                          stateLocalTaxes |-> Num(50000)]),
       Spread(EmptyForm, [totalWages |-> Num(50000), tipIncome |-> Num(20000),
                          overtimeIncome |-> Num(5000),
                          autoLoanInterest |-> Num(3000)]),
       Spread(EmptyForm, [totalWages |-> Num(320000), tipIncome |-> Num(20000)]),
       Spread(EmptyForm, [totalWages |-> Num(50000),
                          birthDate |-> [y |-> 1961, m |-> 6, d |-> 1]]),
       Spread(EmptyForm, [totalWages |-> Num(50000), dependents |-> NotAnArray]),
       Spread(EmptyForm, [filingStatus |-> "married", totalWages |-> Num(100000),
                          qualifiedDividends |-> Num(20000),
                          capitalGainLoss |-> Num(0 - 10000),
                          hasScheduleC |-> TRUE,
                          scheduleC |-> [present |-> TRUE, netProfit |-> Num(100000),
                                         grossReceipts |-> Undefined,
                                         expenses |-> Undefined]]) >>

\* the overrides a session passes; <<>> is the empty object
SessionOverrides ==
    { <<>>,
      [filingStatus |-> "marriedSeparate"],
      [scheduleC |-> [present |-> TRUE, netProfit |-> Undefined,
                      grossReceipts |-> Num(300000), expenses |-> Num(60000)]] }

ToggleValues == {"true", "false"}
StatusEdits == {"single", "other", "marriedSeparate"} \cup InheritedKeys

CallCount == IF call = NoCall THEN 0 ELSE call.n

\* the form is as it was loaded
Loaded == \E i \in 1..Len(SessionForms) : form = SessionForms[i]

\* the record of a call, with the record of the call before it
Logged(fn, f, overrides, ret) ==
    [fn |-> fn, form |-> f, overrides |-> overrides, at |-> today, ret |-> ret,
     n |-> CallCount + 1,
     prev |-> IF call = NoCall THEN NoCall ELSE [call EXCEPT !.prev = NoCall]]

Load(i) ==
    /\ call = NoCall
    /\ form = EmptyForm
    /\ form' = SessionForms[i]
    /\ UNCHANGED <<call, locals, result, today>>

SetToggle(v) ==
    /\ Loaded
    /\ CallCount < MaxCalls
    /\ form.useObbba2025 # v
    /\ form' = [form EXCEPT !.useObbba2025 = v]
    /\ UNCHANGED <<call, locals, result, today>>

\* an inherited key is entered only with the standard deduction
SetStatus(s) ==
    /\ Loaded
    /\ CallCount < MaxCalls
    /\ form.filingStatus # s
    /\ s \in InheritedKeys => form.deductionType # "itemized"
    /\ form' = [form EXCEPT !.filingStatus = s]
    /\ UNCHANGED <<call, locals, result, today>>

DayPasses ==
    /\ form # EmptyForm
    /\ CallCount < MaxCalls
    /\ today = StartDate
    /\ today' = LaterDate
    /\ UNCHANGED <<call, form, locals, result>>

\* calculateTotalTax(form)
CallTotalTax ==
    /\ form # EmptyForm
    /\ CallCount < MaxCalls
    /\ locals' = IF Throws(form) THEN NoLocals ELSE Pipeline(form, today)
    /\ result' = IF Throws(form) THEN Thrown ELSE TaxResult(locals')
    /\ call' = Logged("calculateTotalTax", form, <<>>, result')
    /\ UNCHANGED <<form, today>>

\* a variant that merges the overrides into the caller's form
CallWithOverridesInPlace(overrides) ==
    /\ form # EmptyForm
    /\ CallCount < MaxCalls
    /\ locals' = NoLocals
    /\ result' = calculateTaxWithOverrides(form, overrides, today)
    /\ form' = Spread(form, overrides)
    /\ call' = Logged("calculateTaxWithOverrides", form', overrides, result')
    /\ UNCHANGED today

\* calculateTaxWithOverrides(form, overrides)
CallWithOverrides(overrides) ==
    /\ form # EmptyForm
    /\ CallCount < MaxCalls
    /\ locals' = NoLocals
    /\ result' = calculateTaxWithOverrides(form, overrides, today)
    /\ call' = Logged("calculateTaxWithOverrides", form, overrides, result')
    /\ UNCHANGED <<form, today>>

NextSession ==
    \/ \E i \in 1..Len(SessionForms) : Load(i)
    \/ \E v \in ToggleValues : SetToggle(v)
    \/ \E s \in StatusEdits : SetStatus(s)
    \/ DayPasses
    \/ CallTotalTax
    \/ \E overrides \in SessionOverrides : CallWithOverrides(overrides)

SpecSession == Init /\ [][NextSession]_vars

----------------------------------------------------------------------------
(* A caller takes a prepared return, sets status and deduction type, and has
   it computed *)

\* prepared returns
ReturnForms ==
    << Spread(EmptyForm, [totalWages |-> Num(0), qualifiedDividends |-> Num(20000),
                          partnershipIncome |-> Num(100000),
                          scheduleK1 |-> [present |-> TRUE,
                                          guaranteedPayments |-> Num(20000),
                                          ordinaryIncome |-> Num(100000)]]),
       Spread(EmptyForm, [hasScheduleD |-> TRUE,
                          scheduleD |-> [present |-> TRUE, shortTermGain |-> Undefined,
                                         shortTermLoss |-> Num(80000),
                                         longTermGain |-> Num(80000),
                                         longTermLoss |-> Undefined]]),
       Spread(EmptyForm, [totalWages |-> Num(500000), autoLoanInterest |-> Num(3000),
                          birthDate |-> [y |-> 1950, m |-> 1, d |-> 1]]),
       Spread(EmptyForm, [totalWages |-> Num(320000), tipIncome |-> Num(20000),
                          overtimeIncome |-> Num(5000)]),
       Spread(EmptyForm, [totalWages |-> Num(100000), charityCash |-> Num(5000)]),
       Spread(EmptyForm, [totalWages |-> Num(100000),
                          mortgageInterest |-> Num(40000)]),
       Spread(EmptyForm, [tipIncome |-> Num(20000), hasScheduleC |-> TRUE,
                          scheduleC |-> [present |-> TRUE, netProfit |-> Num(100000),
                                         grossReceipts |-> Undefined,
                                         expenses |-> Undefined]]),
       Spread(EmptyForm, [selfEmploymentTaxDeduction |-> Num(9000),
                          hasScheduleC |-> TRUE,
                          scheduleC |-> [present |-> TRUE, netProfit |-> Num(100000),
                                         grossReceipts |-> Undefined,
                                         expenses |-> Undefined]]),
       Spread(EmptyForm, [totalWages |-> Num(50000), tipIncome |-> Num(20000),
                          earnedIncomeCredit |-> Num(3000)]) >>

Prepare(i) ==
    /\ NotComputed
    /\ form = EmptyForm
    /\ form' = ReturnForms[i]
    /\ UNCHANGED <<call, locals, result, today>>

NextReturns ==
    \/ \E i \in 1..Len(ReturnForms) : Prepare(i)
    \/ \E s \in EnteredStatuses : SetFilingStatus(s)
    \/ \E d \in DeductionTypes : SetDeductionType(d)
    \/ Compute

SpecReturns == Init /\ [][NextReturns]_vars

----------------------------------------------------------------------------
(* The optimization engine: analyzeTaxOptimizations(form) *)

MaxOptimizations == 3

\* potentialSavings of the optimizations the optimizer modules push
PotentialSavings == {0 - 500, 0, 1200, 3000}

\* allOptimizations after the last module has run; an entry keeps the module
\* that pushed it
AllOptimizations ==
    UNION {{[i \in 1..n |-> [module |-> i, potentialSavings |-> savings[i]]] :
              savings \in [1..n -> PotentialSavings]} : n \in 0..MaxOptimizations}

\* .filter(opt => opt.potentialSavings > 0)
Beneficial(optimizations) ==
    SelectSeq(optimizations, LAMBDA opt : opt.potentialSavings > 0)

\* .sort((a, b) => b.potentialSavings - a.potentialSavings), a stable sort
RECURSIVE InsertBySavings(_, _)
InsertBySavings(opt, sorted) ==
    IF sorted = <<>> THEN <<opt>>
    ELSE IF Head(sorted).potentialSavings - opt.potentialSavings >= 0
         THEN <<Head(sorted)>> \o InsertBySavings(opt, Tail(sorted))
         ELSE <<opt>> \o sorted

RECURSIVE SortBySavings(_)
SortBySavings(optimizations) ==
    IF optimizations = <<>> THEN <<>>
    ELSE InsertBySavings(optimizations[Len(optimizations)],
                         SortBySavings(SubSeq(optimizations, 1,
                                              Len(optimizations) - 1)))

\* the beneficial optimizations in the order the modules pushed them
beneficialOptimizationsUnsorted(allOptimizations) == Beneficial(allOptimizations)

beneficialOptimizations(allOptimizations) ==
    SortBySavings(Beneficial(allOptimizations))

\* .reduce((sum, opt) => sum + (opt.potentialSavings || 0), 0)
RECURSIVE totalPotentialSavings(_)
totalPotentialSavings(optimizations) ==
    IF optimizations = <<>> THEN 0
    ELSE totalPotentialSavings(SubSeq(optimizations, 1, Len(optimizations) - 1))
             + optimizations[Len(optimizations)].potentialSavings

\* optimizations[0] || null
Null == [module |-> 0, potentialSavings |-> 0]

\* totalCount and topRecommendation of the summary
generateSummary(optimizations) ==
    [totalCount |-> Len(optimizations),
     topRecommendation |-> IF optimizations # <<>> THEN optimizations[1] ELSE Null]

OptimizationResult(currentTax, optimizations) ==
    [returned |-> TRUE,
     currentTax |-> currentTax,
     optimizations |-> optimizations,
     totalPotentialSavings |-> totalPotentialSavings(optimizations),
     optimizedTax |->
        Max(Zero, Sub(currentTax.finalTax, N(totalPotentialSavings(optimizations)))),
     summary |-> generateSummary(optimizations)]

analyzeTaxOptimizations(f, allOptimizations, now) ==
    IF Throws(f) THEN Thrown
    ELSE OptimizationResult(calculateTotalTax(f, now),
                            beneficialOptimizations(allOptimizations))

CallAnalyzeTaxOptimizations(allOptimizations) ==
    /\ call = NoCall
    /\ call' = [fn |-> "analyzeTaxOptimizations", args |-> allOptimizations,
                status |-> form.filingStatus,
                ret |-> analyzeTaxOptimizations(form, allOptimizations, today)]
    /\ UNCHANGED <<form, locals, result, today>>

NextOptimize ==
    \/ \E i \in 1..Len(ReturnForms) : Prepare(i)
    \/ \E allOptimizations \in AllOptimizations :
        CallAnalyzeTaxOptimizations(allOptimizations)
    \/ Return

SpecOptimize == Init /\ [][NextOptimize]_vars

----------------------------------------------------------------------------
(* Properties of the bracket engine *)

\* c hundredths
Cents(c) == DivSmall(N(c), 100)

IsBracketCall == call.fn = "calculateBracketTax"

\* sum over brackets of rate_i * max(0, min(income, upper_i) - lower_i)
RECURSIVE BracketSum(_, _, _)
BracketSum(income, brackets, i) ==
    IF i > Len(brackets) THEN Zero
    ELSE LET lower == brackets[i][1]
             upper == IF i < Len(brackets) THEN brackets[i + 1][1] ELSE income
             top == IF income < upper THEN income ELSE upper
             part == IF top > lower THEN top - lower ELSE 0
         IN  Add(MulRate(N(part), brackets[i][2]), BracketSum(income, brackets, i + 1))

\* C4: calculateBracketTax returns 0 for income <= 0 and otherwise the sum
\* over brackets of rate_i * max(0, min(income, upper_i) - lower_i); the
\* result is never negative
Thm_C4_BracketFormula ==
    IsBracketCall =>
        LET income == call.args[1]
            brackets == TAX_BRACKETS_2025[call.status]
        IN  /\ income <= 0 => call.ret = Zero
            /\ income > 0 => call.ret = BracketSum(income, brackets, 1)
            /\ Ge(call.ret, Zero)

Wit_C4_TopBracket ==
    /\ IsBracketCall
    /\ call.status = "married"
    /\ call.args[1] = 751601
    /\ Gt(call.ret, Zero)

TopRate(brackets) == brackets[Len(brackets)][2]

\* C5: for incomes 0 <= I <= J the tax at I is at most the tax at J, and the
\* difference is at most the top marginal rate times J - I (no jump at a
\* bracket boundary)
Thm_C5_MonotoneNoJump ==
    (IsBracketCall /\ call.args[1] >= 0) =>
        LET brackets == TAX_BRACKETS_2025[call.status]
        IN  \A J \in BracketIncomes :
                J >= call.args[1] =>
                    LET taxJ == calculateBracketTax(N(J), brackets)
                    IN  /\ Le(call.ret, taxJ)
                        /\ Le(Sub(taxJ, call.ret),
                              MulRate(N(J - call.args[1]), TopRate(brackets)))

Wit_C5_AtBoundary ==
    /\ IsBracketCall
    /\ call.status = "single"
    /\ call.args[1] = 48475
    /\ Gt(calculateBracketTax(N(48476), TAX_BRACKETS_2025.single), call.ret)

\* C6: calculateBracketTax(60000, TAX_BRACKETS_2025.single) is 8114.00, made
\* of 1192.50 at 10%, 4386.00 at 12% and 2535.50 at 22%
Thm_C6_Single60000 ==
    (IsBracketCall /\ call.status = "single" /\ call.args[1] = 60000) =>
        LET at(x) == calculateBracketTax(N(x), TAX_BRACKETS_2025.single)
        IN  /\ call.ret = N(8114)
            /\ at(11925) = Cents(119250)
            /\ Sub(at(48475), at(11925)) = N(4386)
            /\ Sub(call.ret, at(48475)) = Cents(253550)

Wit_C6_Single60000 ==
    /\ IsBracketCall
    /\ call.status = "single"
    /\ call.args[1] = 60000
    /\ call.ret = N(8114)

----------------------------------------------------------------------------
(* Properties of the capital gains stacker *)

IsGainsCall == call.fn = "calculateCapitalGainsTax"

\* sum over brackets of rate_i times the length of the overlap of
\* [lo, hi] with [threshold_i, threshold_(i+1)), the last bracket unbounded
RECURSIVE OverlapSum(_, _, _, _)
OverlapSum(lo, hi, brackets, i) ==
    IF i > Len(brackets) THEN Zero
    ELSE LET lower == IF lo > brackets[i][1] THEN lo ELSE brackets[i][1]
             upper == IF i < Len(brackets) /\ brackets[i + 1][1] < hi
                      THEN brackets[i + 1][1] ELSE hi
             part == IF upper > lower THEN upper - lower ELSE 0
         IN  Add(MulRate(N(part), brackets[i][2]), OverlapSum(lo, hi, brackets, i + 1))

\* C1: for ordinary income >= 0 and preferential income > 0 the result is the
\* sum over brackets of rate_i times the overlap of
\* [ordinary, ordinary + preferential] with the bracket
Cex_C1_EachDollarAtItsBracketRate ==
    (IsGainsCall /\ call.args[1] >= 0 /\ call.args[2] > 0) =>
        call.ret = OverlapSum(call.args[1], call.args[1] + call.args[2],
                              Lookup(CAPITAL_GAINS_BRACKETS_2025, call.status), 1)

\* C7: the result is 0 whenever the preferential income is <= 0, and for
\* ordinary 40000, gains 20000, single it is 1747.50
Thm_C7_ZeroGainsAndExample ==
    IsGainsCall =>
        /\ call.args[2] <= 0 => call.ret = Zero
        /\ (call.args = <<40000, 20000>> /\ call.status = "single")
               => call.ret = Cents(174750)

Wit_C7_Example ==
    /\ IsGainsCall
    /\ call.args = <<40000, 20000>>
    /\ call.status = "single"
    /\ call.ret = Add(MulRate(N(8350), 0), MulRate(N(11650), 1500))

----------------------------------------------------------------------------
(* Properties of the self-employment tax calculator *)

IsSECall == call.fn = "calculateSelfEmploymentTax"

\* C8: the result is {tax: 0, deduction: 0} when the net self-employment
\* income is <= 0, and the deduction is always half of the tax
Thm_C8_DeductionIsHalfTax ==
    IsSECall =>
        /\ call.args[1] <= 0 => call.ret = [tax |-> Zero, deduction |-> Zero]
        /\ Add(call.ret.deduction, call.ret.deduction) = call.ret.tax

Wit_C8_AdditionalMedicare ==
    /\ IsSECall
    /\ call.args = <<300000, 0>>
    /\ call.status = "single"
    /\ Gt(call.ret.tax, N(30000))
    /\ Gt(call.ret.deduction, N(15000))

MaxInt(a, b) == IF a > b THEN a ELSE b

\* T of the Additional Medicare Tax
MedicareThresholdOf(s) ==
    IF s \in {"married", "widow"} THEN 250000
    ELSE IF s = "marriedSeparate" THEN 125000 ELSE 200000

\* C25: for net income > 0 and wages >= 0, with b = 92.35% of the net income,
\* tax = 12.4% * min(b, max(0, 176100 - wages)) + 2.9% * b
\*       + 0.9% * max(0, b - max(0, T - wages)); so the Social Security part is
\* 0 once the wages reach 176100
Thm_C25_WagesUseUpTheBases ==
    (IsSECall /\ call.args[1] > 0 /\ call.args[2] >= 0) =>
        LET b == MulRate(N(call.args[1]), 9235)
            wages == call.args[2]
            T == MedicareThresholdOf(call.status)
        IN  /\ call.ret.tax
                 = SumAll(<<MulRate(Min(b, N(MaxInt(0, 176100 - wages))), 1240),
                            MulRate(b, 290),
                            MulRate(Max(Zero, Sub(b, N(MaxInt(0, T - wages)))), 90)>>)
            /\ wages >= 176100 =>
                 Le(call.ret.tax, Add(MulRate(b, 290), MulRate(b, 90)))

\* 50000 of net income on top of 200000 of wages
Wit_C25_WageBaseUsedUp ==
    /\ IsSECall
    /\ call.args = <<50000, 200000>>
    /\ call.status = "single"
    /\ Gt(call.ret.tax, Zero)
    /\ Lt(call.ret.tax, N(2000))

----------------------------------------------------------------------------
(* Properties of the NIIT calculator *)

IsNIITCall == call.fn = "calculateNIIT"

\* C3: calculateNIIT returns 3.8% of min(max(0, agi - threshold),
\* netInvestmentIncome), and that result is >= 0
Cex_C3_NIITNeverNegative ==
    IsNIITCall =>
        LET agi == N(call.args[1])
            nii == N(call.args[2])
            threshold == N(Lookup(NIITThresholds, call.status))
        IN  /\ call.ret = MulRate(Min(Max(Zero, Sub(agi, threshold)), nii), 380)
            /\ Ge(call.ret, Zero)

----------------------------------------------------------------------------
(* Properties of the total tax pipeline *)

Returned == result.returned

NonNegative(fields) == \A k \in fields : Ge(result[k], Zero)

Thm_C9_QBIBounds ==
    Returned =>
        LET qualifiedDividends == Or0(form.qualifiedDividends)
            base == Sub(Sub(locals.agi, locals.deduction),
                        Add(qualifiedDividends, Max(Zero, locals.netLongTerm)))
        IN  /\ Ge(locals.qbiDeduction, Zero)
            /\ Le(locals.qbiDeduction, MulRate(locals.qbiEligible, 2000))
            /\ Le(locals.qbiDeduction, MulRate(Max(Zero, base), 2000))

Wit_C9_CeilingBinds ==
    /\ Returned
    /\ Gt(locals.qbiDeduction, Zero)
    /\ Gt(Or0(form.qualifiedDividends), Zero)
    /\ Lt(locals.qbiDeduction, MulRate(locals.qbiEligible, 2000))

\* the integer a numeric field holds, 0 when it holds none
V(x) == IF x.t = "number" THEN x.v ELSE 0

AbsInt(n) == IF n < 0 THEN 0 - n ELSE n
MinInt(a, b) == IF a < b THEN a ELSE b

\* short-term net + long-term net of Schedule D, or capitalGainLoss without
\* Schedule D detail
NetCapitalResult(f) ==
    IF f.hasScheduleD /\ f.scheduleD.present
    THEN (V(f.scheduleD.shortTermGain) - AbsInt(V(f.scheduleD.shortTermLoss)))
             + (V(f.scheduleD.longTermGain) - AbsInt(V(f.scheduleD.longTermLoss)))
    ELSE V(f.capitalGainLoss)

\* the income of the form other than the capital result
OtherIncome(f) ==
    V(f.totalWages) + V(f.taxableInterest) + V(f.ordinaryDividends) + V(f.taxableIra)
        + V(f.taxablePensions) + V(f.taxableSocialSecurity) + V(f.otherIncome)
        + (IF f.hasScheduleC /\ f.scheduleC.present
           THEN (IF f.scheduleC.netProfit.t # "undefined" THEN V(f.scheduleC.netProfit)
                 ELSE V(f.scheduleC.grossReceipts) - V(f.scheduleC.expenses))
           ELSE 0)
        + (IF f.hasScheduleE /\ f.scheduleE.present
           THEN (IF f.scheduleE.netIncome.t # "undefined" THEN V(f.scheduleE.netIncome)
                 ELSE V(f.scheduleE.rentalIncome) - V(f.scheduleE.rentalExpenses))
           ELSE 0)

CapitalLossExample ==
    [EmptyForm EXCEPT !.filingStatus = "single", !.totalWages = Num(50000),
                      !.capitalGainLoss = Num(0 - 10000),
                      !.deductionType = "standard"]

\* C10: the net capital result n enters totalIncome as n when n >= 0 and as
\* -min(|n|, L) when n < 0, L being 1500 for marriedSeparate and 3000
\* otherwise; single, wages 50000, capitalGainLoss -10000, standard deduction
\* gives totalIncome 47000
Thm_C10_CapitalLossLimit ==
    Returned =>
        LET n == NetCapitalResult(form)
            L == IF form.filingStatus = "marriedSeparate" THEN 1500 ELSE 3000
            share == IF n >= 0 THEN n ELSE 0 - MinInt(AbsInt(n), L)
        IN  /\ result.totalIncome = N(OtherIncome(form) + share)
            /\ form = CapitalLossExample => result.totalIncome = N(47000)

Wit_C10_Example ==
    /\ Returned
    /\ form = CapitalLossExample
    /\ result.totalIncome = N(47000)

----------------------------------------------------------------------------
(* Properties of the itemized deduction, the credits and the refund *)

MedicalExample ==
    [EmptyForm EXCEPT !.deductionType = "itemized", !.totalWages = Num(100000),
                      !.medicalExpenses = Num(10000)]

\* C11: on an itemized return the medical component is
\* max(0, medicalExpenses - 7.5% of AGI), is 0 when the expenses do not exceed
\* the floor, and never exceeds medicalExpenses; wages 100000 with medical
\* expenses 10000 and nothing else itemized gives deduction 2500
Cex_C11_MedicalFloor ==
    (Returned /\ form.deductionType = "itemized") =>
        LET medicalExpenses == N(V(form.medicalExpenses))
            floor == MulRate(result.agi, 750)
        IN  /\ locals.medicalDeductible = Max(Zero, Sub(medicalExpenses, floor))
            /\ Le(medicalExpenses, floor) => locals.medicalDeductible = Zero
            /\ Le(locals.medicalDeductible, medicalExpenses)
            /\ form = MedicalExample => result.deduction = N(2500)

QualifyingChildrenOf(f) ==
    Cardinality({i \in 1..Len(Dependents(f)) :
                    Dependents(f)[i].qualifyingChild /\ Dependents(f)[i].childTaxCredit})

OtherDependentsOf(f) ==
    Cardinality({i \in 1..Len(Dependents(f)) : ~Dependents(f)[i].qualifyingChild})

\* child + other-dependents + education + retirement-savers + child-care credits
NonRefundableOf(f) ==
    (IF V(f.childTaxCredit) # 0 THEN V(f.childTaxCredit)
     ELSE 2000 * QualifyingChildrenOf(f))
    + (IF V(f.creditOtherDependents) # 0 THEN V(f.creditOtherDependents)
       ELSE 500 * OtherDependentsOf(f))
    + V(f.educationCredits) + V(f.retirementSaversCredit) + V(f.childCareCredit)

RefundableOf(f) == V(f.earnedIncomeCredit) + V(f.otherCredits)

\* C16: finalTax = max(0, totalTaxBeforeCredits - nonrefundable) - refundable;
\* the nonrefundable credits never push the tax below 0 and finalTax is negative
\* only when the refundable credits exceed the tax left after the nonrefundable
Thm_C16_CreditOrder ==
    Returned =>
        LET left == Max(Zero, Sub(result.totalTaxBeforeCredits,
                                  N(NonRefundableOf(form))))
        IN  /\ result.finalTax = Sub(left, N(RefundableOf(form)))
            /\ locals.taxAfterNonRefundable = left
            /\ Ge(locals.taxAfterNonRefundable, Zero)
            /\ IsNeg(result.finalTax) => Gt(N(RefundableOf(form)), left)

\* nonrefundable credits larger than the tax, and a refundable credit on top
Wit_C16_FloorThenRefundable ==
    /\ Returned
    /\ NonRefundableOf(form) > 0
    /\ Lt(result.totalTaxBeforeCredits, N(NonRefundableOf(form)))
    /\ RefundableOf(form) > 0
    /\ result.finalTax = N(0 - RefundableOf(form))

\* C17: refundOrOwed = totalPayments - finalTax, and isRefund is true exactly
\* when refundOrOwed >= 0
Thm_C17_RefundSign ==
    Returned =>
        /\ result.refundOrOwed = Sub(result.totalPayments, result.finalTax)
        /\ result.isRefund <=> Ge(result.refundOrOwed, Zero)

\* payments were made and tax is still owed
Wit_C17_Owed ==
    /\ Returned
    /\ Gt(result.totalPayments, Zero)
    /\ IsNeg(result.refundOrOwed)
    /\ ~result.isRefund

----------------------------------------------------------------------------
(* Properties of sessions: two calls compared *)

IsTotalTaxCall(c) == c.fn = "calculateTotalTax"
IsOverridesCall(c) == c.fn = "calculateTaxWithOverrides"

\* the latest call and the one before it are both calculateTotalTax(form)
TwoTotalTaxCalls ==
    /\ IsTotalTaxCall(call)
    /\ call.n >= 2
    /\ IsTotalTaxCall(call.prev)

WithToggle(f, v) == [f EXCEPT !.useObbba2025 = v]

SaltOf(f) == V(f.stateLocalTaxes) + V(f.realEstateTaxes)
SaltCapOff(f) == IF f.filingStatus = "marriedSeparate" THEN 5000 ELSE 10000

\* C12: an itemized form with state, local and real-estate taxes above the
\* toggle-off SALT cap gets a strictly larger deduction with useObbba2025 true
\* than the same form with useObbba2025 false
Thm_C12_SaltCapGating ==
    (/\ IsTotalTaxCall(call)
     /\ call.ret.returned
     /\ call.form.deductionType = "itemized"
     /\ call.form.useObbba2025 \in ToggleValues
     /\ SaltOf(call.form) > SaltCapOff(call.form)) =>
        Gt(calculateTotalTax(WithToggle(call.form, "true"), call.at).deduction,
           calculateTotalTax(WithToggle(call.form, "false"), call.at).deduction)

\* the same itemized form was computed with the toggle true and then false
Wit_C12_ToggledOff ==
    /\ TwoTotalTaxCalls
    /\ call.form.deductionType = "itemized"
    /\ SaltOf(call.form) > SaltCapOff(call.form)
    /\ call.prev.form.useObbba2025 = "true"
    /\ call.form = WithToggle(call.prev.form, "false")
    /\ Gt(call.prev.ret.deduction, call.ret.deduction)

\* the form without the fields only the OBBBA deductions read
WithoutObbbaFields(f) ==
    [f EXCEPT !.tipIncome = Undefined, !.overtimeIncome = Undefined,
              !.autoLoanInterest = Undefined, !.birthDate = NoDate]

PhaseOutFloor(f) == IF f.filingStatus = "married" THEN 300000 ELSE 150000

\* C13: with useObbba2025 false the result does not depend on tipIncome,
\* overtimeIncome, autoLoanInterest or birthDate; with it true or absent, a form
\* with positive tipIncome, overtimeIncome or autoLoanInterest and tentative
\* MAGI below the phase-out floor has a strictly lower agi than the same form
\* with the toggle false
Thm_C13_ObbbaGating ==
    (IsTotalTaxCall(call) /\ call.ret.returned) =>
        /\ call.form.useObbba2025 = "false" =>
              call.ret = calculateTotalTax(WithoutObbbaFields(call.form), call.at)
        /\ (/\ call.form.useObbba2025 # "false"
            /\ \/ V(call.form.tipIncome) > 0
               \/ V(call.form.overtimeIncome) > 0
               \/ V(call.form.autoLoanInterest) > 0
            /\ Le(locals.magiForPhaseOut, N(PhaseOutFloor(call.form)))) =>
              Lt(call.ret.agi,
                 calculateTotalTax(WithToggle(call.form, "false"), call.at).agi)

\* a form with tips was computed with the toggle absent and then false
Wit_C13_TipsGated ==
    /\ TwoTotalTaxCalls
    /\ call.ret.returned
    /\ V(call.form.tipIncome) > 0
    /\ call.prev.form.useObbba2025 = "undefined"
    /\ call.form = WithToggle(call.prev.form, "false")
    /\ Lt(call.prev.ret.agi, call.ret.agi)
    /\ call.ret = calculateTotalTax(WithoutObbbaFields(call.form), call.at)

\* C14: two calls of calculateTotalTax with the same form return results
\* identical in every field, at whatever moments they are made
Cex_C14_FunctionOfTheFormAlone ==
    (TwoTotalTaxCalls /\ call.prev.form = call.form) => call.prev.ret = call.ret

\* C15: calculateTotalTax raises no exception, whatever the form's fields hold
Cex_C15_NeverThrows ==
    IsTotalTaxCall(call) => call.ret.returned

\* C18: neither calculateTotalTax nor calculateTaxWithOverrides modifies the
\* form it is given: a step that makes a call leaves every field of the
\* caller's form as it was
Thm_C18_ArgumentsNotModified ==
    [][call' # call => (form' = form /\ call'.form = form)]_vars

\* overrides that differ from the form were passed and the form is as before
Wit_C18_OverridesPassed ==
    /\ IsOverridesCall(call)
    /\ DOMAIN call.overrides # {}
    /\ form = call.form
    /\ Spread(call.form, call.overrides) # call.form

\* every top-level key of the overrides takes the override's value, every other
\* key keeps the form's
ShallowMerge(f, overrides) ==
    [k \in DOMAIN f \cup DOMAIN overrides |->
        IF k \in DOMAIN overrides THEN overrides[k] ELSE f[k]]

\* C19: calculateTaxWithOverrides(form, overrides) equals calculateTotalTax of
\* the shallow merge, and calculateTotalTax(form) when the overrides are empty
Thm_C19_OverridesAreShallowMerge ==
    IsOverridesCall(call) =>
        /\ call.ret = calculateTotalTax(ShallowMerge(call.form, call.overrides),
                                        call.at)
        /\ DOMAIN call.overrides = {} =>
              call.ret = calculateTotalTax(call.form, call.at)

\* a form was computed with overrides, then edited to the merged form and
\* computed plainly, with the same result
Wit_C19_SameAsEditedForm ==
    /\ IsTotalTaxCall(call)
    /\ call.n >= 2
    /\ IsOverridesCall(call.prev)
    /\ DOMAIN call.prev.overrides # {}
    /\ call.form # call.prev.form
    /\ call.form = ShallowMerge(call.prev.form, call.prev.overrides)
    /\ call.ret.returned
    /\ call.ret = call.prev.ret

\* C20: a form whose filingStatus is missing or is not a table key is computed
\* exactly as the same form with filingStatus 'single'
Cex_C20_UnknownStatusIsSingle ==
    (IsTotalTaxCall(call) /\ call.form.filingStatus \notin FilingStatuses) =>
        call.ret = calculateTotalTax([call.form EXCEPT !.filingStatus = "single"],
                                     call.at)

----------------------------------------------------------------------------
(* Properties of prepared returns *)

StandardDeductionOf(f) ==
    IF f.filingStatus \in {"married", "widow"} THEN 31400
    ELSE IF f.filingStatus = "head" THEN 23500 ELSE 15700

\* only partnership income and qualified dividends are entered
OnlyPartnershipAndDividends(f) ==
    Spread(f, [partnershipIncome |-> Undefined, scheduleK1 |-> NoScheduleK1,
               qualifiedDividends |-> Undefined, totalWages |-> Undefined,
               filingStatus |-> "", deductionType |-> ""]) = EmptyForm

\* C21: a standard-deduction form whose only income is partnership income (net
\* of guaranteed payments) plus qualified dividends, together above the
\* standard deduction, has taxableIncome > 0
Cex_C21_PartnershipIncomeIsTaxed ==
    (/\ Returned
     /\ form.deductionType # "itemized"
     /\ OnlyPartnershipAndDividends(form)
     /\ V(form.partnershipIncome) - V(form.scheduleK1.guaranteedPayments)
            + V(form.qualifiedDividends) > StandardDeductionOf(form)) =>
        Gt(result.taxableIncome, Zero)

\* C22: the ordinary amount given to calculateBracketTax plus the preferential
\* amount given to calculateCapitalGainsTax equals taxableIncome
Cex_C22_SplitAddsUp ==
    Returned =>
        Add(locals.ordinaryTaxableIncome, locals.totalQualifiedIncome)
            = result.taxableIncome

\* C27: when taxableIncome is 0, regularTax and capitalGainsTax are both 0
Cex_C27_NoTaxWithoutTaxableIncome ==
    (Returned /\ result.taxableIncome = Zero) =>
        (result.regularTax = Zero /\ result.capitalGainsTax = Zero)

PhaseOutCeiling(f) == IF f.filingStatus = "married" THEN 550000 ELSE 400000

ObbbaOn(f) == f.useObbba2025 # "false"

AgeOn(f, now) ==
    IF f.birthDate = NoDate THEN 40
    ELSE now.y - f.birthDate.y
         - (IF now.m < f.birthDate.m \/ (now.m = f.birthDate.m /\ now.d < f.birthDate.d)
            THEN 1 ELSE 0)

\* C23: with the toggle on, each of the four temporary deductions is its base
\* amount scaled by the phase-out factor, which is 1 at or below the floor,
\* within [0,1], and 0 at or above the ceiling, where none of the four reduces
\* AGI
Cex_C23_AllFourPhaseOut ==
    (Returned /\ ObbbaOn(form)) =>
        /\ Ge(locals.phaseOutPct, Zero) /\ Le(locals.phaseOutPct, N(1))
        /\ Le(locals.magiForPhaseOut, N(PhaseOutFloor(form))) =>
              locals.phaseOutPct = N(1)
        /\ Ge(locals.magiForPhaseOut, N(PhaseOutCeiling(form))) =>
              locals.phaseOutPct = Zero
        /\ locals.tipsDeduction
              = Mul(N(MinInt(V(form.tipIncome), 25000)), locals.phaseOutPct)
        /\ locals.overtimeDeduction
              = Mul(N(MinInt(V(form.overtimeIncome), 12500)), locals.phaseOutPct)
        /\ locals.autoLoanDeduction
              = Mul(N(MinInt(V(form.autoLoanInterest), 10000)), locals.phaseOutPct)
        /\ locals.seniorBonus
              = Mul(N(IF AgeOn(form, today) >= 65 THEN 6000 ELSE 0),
                    locals.phaseOutPct)

Cex_C28_TentativeMagiIsAgiAddedBack ==
    Returned =>
        locals.magiForPhaseOut
            = SumAll(<<result.agi, locals.tipsDeduction, locals.overtimeDeduction,
                       locals.autoLoanDeduction, locals.seniorBonus>>)

\* C29: filing status 'widow' produces the same Tax Result as 'married'
Cex_C29_WidowAsMarried ==
    (Returned /\ form.filingStatus = "widow") =>
        result = calculateTotalTax([form EXCEPT !.filingStatus = "married"], today)

----------------------------------------------------------------------------
(* Properties of the optimization engine *)

IsAnalyzeCall == call.fn = "analyzeTaxOptimizations" /\ call.ret.returned

RECURSIVE SavingsFrom(_, _)
SavingsFrom(optimizations, i) ==
    IF i > Len(optimizations) THEN 0
    ELSE optimizations[i].potentialSavings + SavingsFrom(optimizations, i + 1)

\* C26: optimizations holds only optimizations with potentialSavings > 0, in
\* non-increasing order of potentialSavings, so summary.topRecommendation has
\* the largest savings, and totalPotentialSavings is the sum of the
\* potentialSavings of the listed optimizations
Thm_C26_BeneficialSortedAndSummed ==
    IsAnalyzeCall =>
        LET opts == call.ret.optimizations
        IN  /\ \A i \in 1..Len(opts) : opts[i].potentialSavings > 0
            /\ \A i, j \in 1..Len(opts) :
                  i < j => opts[i].potentialSavings >= opts[j].potentialSavings
            /\ opts # <<>> =>
                  /\ call.ret.summary.topRecommendation \in {opts[i] : i \in 1..Len(opts)}
                  /\ \A i \in 1..Len(opts) :
                        call.ret.summary.topRecommendation.potentialSavings
                            >= opts[i].potentialSavings
            /\ call.ret.totalPotentialSavings = SavingsFrom(opts, 1)

\* three optimizations were pushed in increasing order of savings, one of them
\* without savings
Wit_C26_ReorderedAndDropped ==
    /\ IsAnalyzeCall
    /\ Len(call.args) = 3
    /\ call.args[1].potentialSavings <= 0
    /\ call.args[2].potentialSavings > 0
    /\ call.args[2].potentialSavings < call.args[3].potentialSavings
    /\ Len(call.ret.optimizations) = 2
    /\ call.ret.optimizations[1] = call.args[3]
    /\ call.ret.totalPotentialSavings > 0

\* C30: optimizedTax is >= 0 and never exceeds currentTax.finalTax, also when
\* the baseline finalTax is negative
Cex_C30_OptimizedTaxWithinBaseline ==
    IsAnalyzeCall =>
        /\ Ge(call.ret.optimizedTax, Zero)
        /\ Le(call.ret.optimizedTax, call.ret.currentTax.finalTax)

====
